---- MODULE Spec2Model ----
(***************************************************************************)
(* Model of plexapi/server.py: the PlexServer class (construction and      *)
(* handshake, query, url, headers, library, clients, client,               *)
(* transcodeImage).                                                        *)
(*                                                                         *)
(* Python values are tagged records ([t |-> "None"], [t |-> "str", ...]);  *)
(* a str is a sequence of atoms, an atom being either one character or a   *)
(* literal of the source that never contains '?', '&' or '='.              *)
(***************************************************************************)
EXTENDS Integers, Sequences, FiniteSets, TLC

\* ------------------------------------------------------------------------
\* Bounds
\* ------------------------------------------------------------------------

\* number of Library objects the process may allocate
MaxObjects == 2

\* the variables holding a PlexServer in the calling program
Conns == {1, 2}

\* ------------------------------------------------------------------------
\* Python values
\* ------------------------------------------------------------------------

None == [t |-> "None"]

PyStr(s) == [t |-> "str", v |-> s]

PyInt(n) == [t |-> "int", v |-> n]

Dict(d) == [t |-> "dict", v |-> d]

\* an empty dict (a function with an empty domain)
EmptyMap == [k \in {} |-> None]

\* Python truth value of an object
Truthy(x) ==
    CASE x.t = "None" -> FALSE
      [] x.t = "str" -> Len(x.v) > 0
      [] x.t = "bytes" -> Len(x.v) > 0
      [] x.t = "int" -> x.v # 0
      [] x.t = "dict" -> DOMAIN x.v # {}
      [] x.t = "Element" -> Len(x.children) > 0
      [] OTHER -> TRUE

\* Python `a or b`
Or(a, b) == IF Truthy(a) THEN a ELSE b

DigitChar == <<"0", "1", "2", "3", "4", "5", "6", "7", "8", "9">>

RECURSIVE Digits(_)
\* decimal representation of a natural number
Digits(n) ==
    IF n < 10 THEN <<DigitChar[n + 1]>>
    ELSE Digits(n \div 10) \o <<DigitChar[(n % 10) + 1]>>

\* '%s' % x
Fmt(x) ==
    CASE x.t = "str" -> x.v
      [] x.t = "int" -> Digits(x.v)
      [] OTHER -> <<"None">>

IsDigit(c) == \E i \in 1..10 : DigitChar[i] = c

DigitVal(c) == (CHOOSE i \in 1..10 : DigitChar[i] = c) - 1

RECURSIVE DecVal(_)
DecVal(s) ==
    IF Len(s) = 0 THEN 0
    ELSE 10 * DecVal(SubSeq(s, 1, Len(s) - 1)) + DigitVal(s[Len(s)])

\* int(x): [ok, v]; ok is FALSE where int() raises ValueError
IntOf(x) ==
    CASE x.t = "int" -> [ok |-> TRUE, v |-> x.v]
      [] x.t = "str" ->
            IF Len(x.v) > 0 /\ \A i \in 1..Len(x.v) : IsDigit(x.v[i])
            THEN [ok |-> TRUE, v |-> DecVal(x.v)]
            ELSE [ok |-> FALSE, v |-> 0]
      [] OTHER -> [ok |-> FALSE, v |-> 0]

LowerChar(c) ==
    CASE c = "B" -> "b"
      [] c = "O" -> "o"
      [] c = "A" -> "a"
      [] c = "L" -> "l"
      [] OTHER -> c

\* str.lower()
Lower(s) == [i \in 1..Len(s) |-> LowerChar(s[i])]

\* `sub in s` for strings
Contains(s, sub) ==
    \E i \in 0..(Len(s) - Len(sub)) :
        \A j \in 1..Len(sub) : s[i + j] = sub[j]

\* number of occurrences of the atom ch in s
Count(s, ch) == Cardinality({i \in 1..Len(s) : s[i] = ch})

\* dict.get(k) / dict.get(k, default)
Get(d, k, default) == IF k \in DOMAIN d THEN d[k] ELSE default

\* d[k] = v
DictSet(d, k, v) == [x \in (DOMAIN d) \cup {k} |-> IF x = k THEN v ELSE d[x]]

\* d.update(e)
Update(d, e) ==
    [x \in (DOMAIN d) \cup (DOMAIN e) |-> IF x \in DOMAIN e THEN e[x] ELSE d[x]]

Return(v) == [kind |-> "return", value |-> v]

Raise(type, msg) == [kind |-> "raise", value |-> [t |-> "exc", type |-> type, msg |-> msg]]

\* ------------------------------------------------------------------------
\* Literals of the source
\* ------------------------------------------------------------------------

TokenKey == "X-Plex-Token"

RootPath == <<"/">>

LibraryPath == <<"/library/">>

ClientsPath == <<"/clients">>

\* requests.status_codes._codes: the status codes that have names, with the
\* first name of each
codes ==
    [c \in {200, 201, 401, 404, 500} |->
        CASE c = 200 -> <<"ok">>
          [] c = 201 -> <<"created">>
          [] c = 401 -> <<"unauthorized">>
          [] c = 404 -> <<"not_found">>
          [] OTHER -> <<"internal_server_error">>]

\* ------------------------------------------------------------------------
\* xml.etree.ElementTree
\* ------------------------------------------------------------------------

\* A response text is a sequence of lexemes: a start tag with its attributes,
\* an end tag, or character data.
Open(tag, attrib) == [lx |-> "open", tag |-> tag, attrib |-> attrib]

Close(tag) == [lx |-> "close", tag |-> tag, attrib |-> EmptyMap]

Text == [lx |-> "text", tag |-> "", attrib |-> EmptyMap]

Element(tag, attrib, children) ==
    [t |-> "Element", tag |-> tag, attrib |-> attrib, children |-> children]

ParseError == Raise("ParseError", <<"not well-formed">>)

RECURSIVE ParseFrom(_, _, _, _)
\* One pass over the lexemes with the stack of open elements; root is the
\* closed document element once there is one.
ParseFrom(lex, i, stack, root) ==
    IF i > Len(lex)
    THEN IF Len(stack) = 0 /\ root.t = "Element" THEN Return(root) ELSE ParseError
    ELSE LET l == lex[i]
             n == Len(stack)
         IN CASE l.lx = "open" ->
                    IF n = 0 /\ root.t = "Element"
                    THEN ParseError
                    ELSE ParseFrom(lex, i + 1,
                                   Append(stack, Element(l.tag, l.attrib, <<>>)), root)
              [] l.lx = "close" ->
                    IF n = 0 \/ (n > 0 /\ stack[n].tag # l.tag)
                    THEN ParseError
                    ELSE IF n = 1
                         THEN ParseFrom(lex, i + 1, <<>>, stack[1])
                         ELSE ParseFrom(lex, i + 1,
                                  [k \in 1..(n - 1) |->
                                      IF k = n - 1
                                      THEN [stack[k] EXCEPT
                                               !.children = Append(@, stack[n])]
                                      ELSE stack[k]],
                                  root)
              [] OTHER ->
                    IF n = 0 THEN ParseError ELSE ParseFrom(lex, i + 1, stack, root)

\* ElementTree.fromstring(data)
fromstring(data) == ParseFrom(data.v, 1, <<>>, None)

\* str.encode('utf8'): a bytes object with the encoded text
encode(text) == [t |-> "bytes", v |-> text]

\* ------------------------------------------------------------------------
\* PlexServer: url, headers, query, _connect
\* ------------------------------------------------------------------------

\* url with the separator always '?'
urlAlwaysQuestionMark(self, path) ==
    IF Truthy(self.token)
    THEN Fmt(self.baseurl) \o path \o <<"?">> \o <<TokenKey, "=">> \o Fmt(self.token)
    ELSE Fmt(self.baseurl) \o path

\* PlexServer.url
url(self, path) ==
    IF Truthy(self.token)
    THEN LET delim == IF \E i \in 1..Len(path) : path[i] = "?" THEN <<"&">> ELSE <<"?">>
         IN Fmt(self.baseurl) \o path \o delim \o <<TokenKey, "=">> \o Fmt(self.token)
    ELSE Fmt(self.baseurl) \o path

\* headers without the token
headersWithoutToken(self, base) == [ret |-> base, base |-> base]

\* PlexServer.headers: `headers = BASE_HEADERS` names the module-level dict
\* itself, so the assignment to its key is made in BASE_HEADERS.  ret is the
\* dict returned, base the module-level dict after the call.
headers(self, base) ==
    LET h == IF Truthy(self.token) THEN DictSet(base, TokenKey, self.token) ELSE base
    IN [ret |-> h, base |-> h]

\* parse without the test for no data
parseAlways(data) == fromstring(data)

\* the last line of PlexServer.query: the parsed document, or None for no data
parse(data) == IF Truthy(data) THEN fromstring(data) ELSE Return(None)

\* the part of PlexServer.query after the request: resp is what the session
\* method does (it raises, or it returns a response), u the URL requested,
\* which is the response's url
respond(u, resp) ==
    IF resp.kind = "exc"
    THEN Raise(resp.type, <<"transport failure">>)
    ELSE IF resp.status \notin {200, 201}
         THEN IF resp.status \in DOMAIN codes
              THEN Raise("BadRequest",
                         <<"(">> \o Digits(resp.status) \o <<")", " ">>
                         \o codes[resp.status] \o <<" ">> \o u)
              ELSE Raise("TypeError", <<"'NoneType' object is not subscriptable">>)
         ELSE parse(encode(resp.text))

\* the part of PlexServer.query that sends: u is url(path), hs what headers()
\* gave.  The result is the request sent, the module-level header dict after
\* the call and the outcome (the value returned or the exception raised).
send(u, hs, method, hdrs, resp) ==
    [request |-> [url |-> u,
                  method |-> Or(method, PyStr(<<"get">>)),
                  headers |-> IF Truthy(hdrs) THEN Update(hs.ret, hdrs.v) ELSE hs.ret],
     base |-> hs.base,
     outcome |-> respond(u, resp)]

\* PlexServer.query.  hdrs is the caller's headers argument.
query(self, base, path, method, hdrs, resp) ==
    send(url(self, path), headers(self, base), method, hdrs, resp)

\* the except clause of PlexServer._connect
collapse(self, q) ==
    IF q.outcome.kind = "raise"
    THEN [q EXCEPT !.outcome =
             Raise("NotFound", <<"No server found at: ">> \o Fmt(self.baseurl))]
    ELSE q

\* PlexServer._connect
connect(self, base, resp) ==
    collapse(self, query(self, base, RootPath, None, None, resp))

\* ------------------------------------------------------------------------
\* Collaborators: Library and PlexClient objects
\* ------------------------------------------------------------------------

\* Library(server, data): a new object, which is true as every object is
\* whose class defines no truth value; id is its identity
Library(id, data) == [t |-> "Library", id |-> id]

\* PlexClient(baseurl, server=self, data=elem)
PlexClient(baseurl, data) == [t |-> "PlexClient", baseurl |-> baseurl, data |-> data]

\* ------------------------------------------------------------------------
\* PlexServer: construction
\* ------------------------------------------------------------------------

\* what an operation that sent no request and changed nothing reports
NoRequests == <<>>

\* PlexServer.__init__ from line 80: a is data.attrib, sessions and updated
\* the two int() conversions
fields(b, tk, a, sessions, updated) ==
    IF ~sessions.ok \/ ~updated.ok
    THEN Raise("ValueError", <<"invalid literal for int()">>)
    ELSE Return([t |-> "PlexServer",
                 baseurl |-> b,
                 token |-> tk,
                 friendlyName |-> Get(a, "friendlyName", None),
                 machineIdentifier |-> Get(a, "machineIdentifier", None),
                 myPlex |-> Truthy(Get(a, "myPlex", None)),
                 myPlexMappingState |-> Get(a, "myPlexMappingState", None),
                 myPlexSigninState |-> Get(a, "myPlexSigninState", None),
                 myPlexSubscription |-> Get(a, "myPlexSubscription", None),
                 myPlexUsername |-> Get(a, "myPlexUsername", None),
                 platform |-> Get(a, "platform", None),
                 platformVersion |-> Get(a, "platformVersion", None),
                 transcoderActiveVideoSessions |-> sessions.v,
                 updatedAt |-> updated.v,
                 version |-> Get(a, "version", None),
                 library |-> None])

\* PlexServer.__init__ from line 71: data is what _connect returned
attributes(b, tk, data) ==
    IF data.t = "None"
    THEN Raise("AttributeError", <<"'NoneType' object has no attribute 'attrib'">>)
    ELSE fields(b, tk, data.attrib,
                IntOf(Get(data.attrib, "transcoderActiveVideoSessions", PyInt(0))),
                IntOf(Get(data.attrib, "updatedAt", PyInt(0))))

\* PlexServer.__init__ from line 70: c is the call of _connect.  The result
\* is the outcome (the new object, or the exception raised), the requests
\* sent, the module-level header dict and the secret given to the log filter.
populate(b, tk, c) ==
    [self |-> [baseurl |-> b, token |-> tk],
     requests |-> <<c.request>>,
     base |-> c.base,
     secret |-> IF Truthy(tk) THEN {tk} ELSE {},
     outcome |-> IF c.outcome.kind = "raise"
                 THEN c.outcome
                 ELSE attributes(b, tk, c.outcome.value)]

\* PlexServer.__init__ from line 67: b is self.baseurl, tk self.token
handshake(b, tk, base, resp) ==
    populate(b, tk, connect([baseurl |-> b, token |-> tk], base, resp))

\* PlexServer.__init__.  cfg is CONFIG, base is BASE_HEADERS.
PlexServer(baseurl, token, cfg, base, resp) ==
    handshake(Or(baseurl, Get(cfg, "authentication.baseurl", None)),
              Or(token, Get(cfg, "authentication.token", None)),
              base, resp)

\* ------------------------------------------------------------------------
\* PlexServer: library, clients, client, transcodeImage
\* ------------------------------------------------------------------------

\* PlexServer.library after the request: q is the call of query, id the
\* identity of the Library object made of its result.  cache is
\* self._library afterwards.
fetched(self, id, q) ==
    [requests |-> <<q.request>>,
     base |-> q.base,
     cache |-> IF q.outcome.kind = "raise"
               THEN self.library
               ELSE Library(id, q.outcome.value),
     outcome |-> IF q.outcome.kind = "raise"
                 THEN q.outcome
                 ELSE Return(Library(id, q.outcome.value))]

\* library without the test of the cache
libraryAlwaysFetches(self, base, id, resp) ==
    fetched(self, id, query(self, base, LibraryPath, None, None, resp))

\* PlexServer.library (the property).  id is the identity a Library object
\* allocated now would get.
library(self, base, id, resp) ==
    IF ~Truthy(self.library)
    THEN fetched(self, id, query(self, base, LibraryPath, None, None, resp))
    ELSE [requests |-> NoRequests, base |-> base,
          cache |-> self.library, outcome |-> Return(self.library)]

\* 'http://%s:%s' % (elem.attrib['host'], elem.attrib['port'])
ClientUrl(elem) ==
    PyStr(<<"http://">> \o Fmt(elem.attrib["host"]) \o <<":">> \o Fmt(elem.attrib["port"]))

HasAddress(elem) == "host" \in DOMAIN elem.attrib /\ "port" \in DOMAIN elem.attrib

KeyError == Raise("KeyError", <<"host or port">>)

NotIterable == Raise("TypeError", <<"'NoneType' object is not iterable">>)

RECURSIVE ClientsLoop(_, _, _)
\* the loop of PlexServer.clients over the children of the listing
ClientsLoop(children, i, items) ==
    IF i > Len(children) THEN Return([t |-> "list", v |-> items])
    ELSE IF ~HasAddress(children[i]) THEN KeyError
    ELSE ClientsLoop(children, i + 1,
                     Append(items, PlexClient(ClientUrl(children[i]), children[i])))

\* PlexServer.clients after the request: q is the call of query
listed(q) ==
    [requests |-> <<q.request>>,
     base |-> q.base,
     outcome |-> IF q.outcome.kind = "raise" THEN q.outcome
                 ELSE IF q.outcome.value.t = "None" THEN NotIterable
                 ELSE ClientsLoop(q.outcome.value.children, 1, <<>>)]

\* PlexServer.clients
clients(self, base, resp) == listed(query(self, base, ClientsPath, None, None, resp))

\* elem.attrib.get('name')
Name(elem) == Get(elem.attrib, "name", None)

RECURSIVE ClientLoop(_, _, _)
\* the loop of PlexServer.client over the children of the listing
ClientLoop(children, i, name) ==
    IF i > Len(children)
    THEN Raise("NotFound", <<"Unknown client name: ">> \o Fmt(name))
    ELSE IF Name(children[i]).t = "None"
         THEN Raise("AttributeError", <<"'NoneType' object has no attribute 'lower'">>)
         ELSE IF Lower(Name(children[i]).v) = Lower(name.v)
              THEN IF HasAddress(children[i])
                   THEN Return(PlexClient(ClientUrl(children[i]), children[i]))
                   ELSE KeyError
              ELSE ClientLoop(children, i + 1, name)

\* PlexServer.client after the request: q is the call of query
lookup(q, name) ==
    [requests |-> <<q.request>>,
     base |-> q.base,
     outcome |-> IF q.outcome.kind = "raise" THEN q.outcome
                 ELSE IF q.outcome.value.t = "None" THEN NotIterable
                 ELSE ClientLoop(q.outcome.value.children, 1, name)]

\* PlexServer.client
client(self, base, name, resp) ==
    lookup(query(self, base, ClientsPath, None, None, resp), name)

\* the path transcodeImage formats
TranscodePath(media, height, width, opacity, saturation) ==
    <<"/photo/:/transcode", "?", "height", "=">> \o Fmt(height)
    \o <<"&", "width", "=">> \o Fmt(width)
    \o <<"&", "opacity", "=">> \o Fmt(opacity)
    \o <<"&", "saturation", "=">> \o Fmt(saturation)
    \o <<"&", "url", "=">> \o Fmt(media)

\* transcodeImage without the test of media
transcodeImageAnyMedia(self, media, height, width, opacity, saturation) ==
    Return(PyStr(url(self, TranscodePath(media, height, width, opacity, saturation))))

\* PlexServer.transcodeImage
transcodeImage(self, media, height, width, opacity, saturation) ==
    IF Truthy(media)
    THEN Return(PyStr(url(self, TranscodePath(media, height, width, opacity, saturation))))
    ELSE Return(None)

\* ------------------------------------------------------------------------
\* Inputs: what callers pass and what the server answers
\* ------------------------------------------------------------------------

Token1 == PyStr(<<"SECRET1">>)

Token2 == PyStr(<<"SECRET2">>)

CallerToken == PyStr(<<"CALLER">>)

BaseUrl1 == PyStr(<<"http://h1:32400">>)

BaseUrl2 == PyStr(<<"http://h2:32400">>)

\* the base URL and token arguments of the constructor
BaseUrlArgs == {BaseUrl1}

TokenArgs == {Token1, None}

\* CONFIG as the configuration file leaves it: without or with a token
ConfigChoices ==
    {[k \in {"authentication.baseurl"} |-> BaseUrl2],
     [k \in {"authentication.baseurl", "authentication.token"} |->
         IF k = "authentication.baseurl" THEN BaseUrl2 ELSE Token2]}

\* BASE_HEADERS as the package defines it: the X-Plex-* identification
\* headers, no token
BaseHeadersInit ==
    [k \in {"X-Plex-Platform", "X-Plex-Client-Identifier"} |->
        IF k = "X-Plex-Platform" THEN PyStr(<<"Linux">>) ELSE PyStr(<<"id">>)]

\* the headers argument of query
HeaderArgs ==
    {None,
     Dict([k \in {"Accept"} |-> PyStr(<<"text/xml">>)]),
     Dict([k \in {TokenKey} |-> CallerToken])}

\* the path argument of query and url
PathArgs == {<<"/a">>, <<"/a", "?", "q", "=", "1">>}

\* the method argument of query
MethodArgs == {None}

NameArgs == {PyStr(<<"B", "o", "b">>), PyStr(<<"N", "o">>)}

MediaArgs == {None, PyStr(<<>>), PyStr(<<"media123">>)}

DefaultOpacity == 100

DefaultSaturation == 100

\* (height, width, opacity, saturation)
SizeArgs == {<<1, 2, DefaultOpacity, DefaultSaturation>>, <<20, 10, 3, 4>>}

Attrs(name, host, port) ==
    [k \in {"name", "host", "port"} |->
        IF k = "name" THEN PyStr(name) ELSE IF k = "host" THEN PyStr(host) ELSE PyStr(port)]

RootAttrs ==
    [k \in {"friendlyName", "myPlex", "transcoderActiveVideoSessions"} |->
        IF k = "friendlyName" THEN PyStr(<<"s-PC">>)
        ELSE IF k = "myPlex" THEN PyStr(<<"1">>) ELSE PyStr(<<"1", "2">>)]

BadRootAttrs == [k \in {"transcoderActiveVideoSessions"} |-> PyStr(<<"x">>)]

\* response texts
EmptyText == <<>>

BareText == <<Open("MediaContainer", EmptyMap), Close("MediaContainer")>>

RootText == <<Open("MediaContainer", RootAttrs), Close("MediaContainer")>>

BadRootText == <<Open("MediaContainer", BadRootAttrs), Close("MediaContainer")>>

ListingText ==
    <<Open("MediaContainer", EmptyMap),
      Open("Server", Attrs(<<"A", "l">>, <<"h0">>, <<"0">>)), Close("Server"),
      Open("Server", Attrs(<<"B", "O", "B">>, <<"h1">>, <<"1">>)), Close("Server"),
      Open("Server", Attrs(<<"b", "o", "b">>, <<"h2">>, <<"2">>)), Close("Server"),
      Close("MediaContainer")>>

NoNameText ==
    <<Open("MediaContainer", EmptyMap),
      Open("Server", [k \in {"host", "port"} |-> PyStr(<<"h0">>)]), Close("Server"),
      Open("Server", Attrs(<<"B", "O", "B">>, <<"h1">>, <<"1">>)), Close("Server"),
      Close("MediaContainer")>>

NoHostText ==
    <<Open("MediaContainer", EmptyMap),
      Open("Server", [k \in {"name"} |-> PyStr(<<"b", "o", "b">>)]), Close("Server"),
      Close("MediaContainer")>>

UnclosedText == <<Open("MediaContainer", EmptyMap)>>

JunkText == <<Text>>

HttpResponse(status, text) == [kind |-> "http", type |-> "", status |-> status, text |-> text]

TransportFailure(type) == [kind |-> "exc", type |-> type, status |-> 0, text |-> <<>>]

\* What the session method may do: raise, answer with a failure status (one
\* with a name, one without), or answer 200 or 201 with a text.  Each
\* operation is tried on the answers that reach its branches.
Failures ==
    {TransportFailure("Timeout")} \cup {HttpResponse(st, EmptyText) : st \in {404, 299}}

Answers(texts) == {HttpResponse(200, tx) : tx \in texts}

ConstructResponses ==
    Failures \cup Answers({EmptyText, RootText, BareText, BadRootText, UnclosedText})

QueryResponses ==
    Failures \cup Answers({EmptyText, BareText, JunkText})
    \cup {HttpResponse(201, tx) : tx \in {EmptyText, BareText}}

LibraryResponses ==
    {TransportFailure("Timeout"), HttpResponse(404, EmptyText)}
    \cup Answers({BareText, ListingText})

ClientsResponses ==
    {HttpResponse(404, EmptyText)} \cup Answers({EmptyText, ListingText, NoHostText})

ClientResponses ==
    {HttpResponse(404, EmptyText)}
    \cup Answers({EmptyText, BareText, ListingText, NoNameText, NoHostText})

\* several PlexServer objects in one process
SharedResponses == {HttpResponse(404, EmptyText), HttpResponse(200, RootText)}

NoResponse == [kind |-> "none", type |-> "", status |-> 0, text |-> <<>>]

\* ------------------------------------------------------------------------
\* State
\* ------------------------------------------------------------------------

VARIABLES
    conns,         \* the PlexServer object each variable of the caller holds, or None
    BASE_HEADERS,  \* plexapi.BASE_HEADERS, the module-level dict
    CONFIG,        \* plexapi.CONFIG
    secrets,       \* the secrets registered with logfilter
    nextId,        \* identity of the next Library object allocated
    lastOp         \* the last operation: its arguments, the requests it sent, its outcome

vars == <<conns, BASE_HEADERS, CONFIG, secrets, nextId, lastOp>>

Op(op, c, self, args, requests, resp, outcome) ==
    [op |-> op, conn |-> c, self |-> [baseurl |-> self.baseurl, token |-> self.token],
     args |-> args, requests |-> requests, resp |-> resp, outcome |-> outcome]

Init ==
    /\ conns = [c \in Conns |-> None]
    /\ BASE_HEADERS = BaseHeadersInit
    /\ CONFIG \in ConfigChoices
    /\ secrets = {}
    /\ nextId = 1
    /\ lastOp = Op("none", 0, [baseurl |-> None, token |-> None], None,
                   NoRequests, NoResponse, Return(None))

Connected(c) == conns[c].t = "PlexServer"

\* the effect of plex = PlexServer(baseurl, token), r being what the
\* constructor did: the variable is bound only if the constructor returns
Constructed(c, baseurl, token, resp, r) ==
    /\ conns' = IF r.outcome.kind = "return"
                THEN [conns EXCEPT ![c] = r.outcome.value]
                ELSE conns
    /\ BASE_HEADERS' = r.base
    /\ secrets' = secrets \cup r.secret
    /\ lastOp' = Op("PlexServer", c, r.self, [baseurl |-> baseurl, token |-> token],
                    r.requests, resp, r.outcome)
    /\ UNCHANGED <<CONFIG, nextId>>

\* plex = PlexServer(baseurl, token)
Construct(c) ==
    \E baseurl \in BaseUrlArgs, token \in TokenArgs, resp \in ConstructResponses :
        Constructed(c, baseurl, token, resp,
                    PlexServer(baseurl, token, CONFIG, BASE_HEADERS, resp))

\* the effect of an operation that changes nothing but BASE_HEADERS, r being
\* what the method did
Called(op, c, args, resp, r) ==
    /\ BASE_HEADERS' = r.base
    /\ lastOp' = Op(op, c, conns[c], args, r.requests, resp, r.outcome)
    /\ UNCHANGED <<conns, CONFIG, secrets, nextId>>

\* query's result as the result of an operation
Sent(q) == [requests |-> <<q.request>>, base |-> q.base, outcome |-> q.outcome]

\* plex.query(path, method, headers)
Query(c) ==
    /\ Connected(c)
    /\ \E path \in PathArgs, method \in MethodArgs, hdrs \in HeaderArgs,
          resp \in QueryResponses :
        Called("query", c, [path |-> path, method |-> method, headers |-> hdrs], resp,
               Sent(query(conns[c], BASE_HEADERS, path, method, hdrs, resp)))

\* the effect of plex.library, r being what the property did
Accessed(c, resp, r) ==
    /\ conns' = [conns EXCEPT ![c].library = r.cache]
    /\ BASE_HEADERS' = r.base
    /\ nextId' = IF r.cache # conns[c].library THEN nextId + 1 ELSE nextId
    /\ lastOp' = Op("library", c, conns[c], None, r.requests,
                    IF r.requests = NoRequests THEN NoResponse ELSE resp, r.outcome)
    /\ UNCHANGED <<CONFIG, secrets>>

\* plex.library
LibraryAccess(c) ==
    /\ Connected(c)
    /\ nextId <= MaxObjects
    /\ \E resp \in LibraryResponses :
        Accessed(c, resp, library(conns[c], BASE_HEADERS, nextId, resp))

\* plex.clients()
Clients(c) ==
    /\ Connected(c)
    /\ \E resp \in ClientsResponses :
        Called("clients", c, None, resp, clients(conns[c], BASE_HEADERS, resp))

\* plex.client(name)
Client(c) ==
    /\ Connected(c)
    /\ \E name \in NameArgs, resp \in ClientResponses :
        Called("client", c, [name |-> name], resp,
               client(conns[c], BASE_HEADERS, name, resp))

\* plex.url(path)
Url(c) ==
    /\ Connected(c)
    /\ \E path \in PathArgs :
        /\ lastOp' = Op("url", c, conns[c], [path |-> path], NoRequests, NoResponse,
                        Return(PyStr(url(conns[c], path))))
        /\ UNCHANGED <<conns, BASE_HEADERS, CONFIG, secrets, nextId>>

\* plex.transcodeImage(media, height, width, opacity, saturation)
TranscodeImage(c) ==
    /\ Connected(c)
    /\ \E media \in MediaArgs, sz \in SizeArgs :
        /\ lastOp' = Op("transcodeImage", c, conns[c],
                        [media |-> media, height |-> sz[1], width |-> sz[2],
                         opacity |-> sz[3], saturation |-> sz[4]],
                        NoRequests, NoResponse,
                        transcodeImage(conns[c], media, PyInt(sz[1]), PyInt(sz[2]),
                                       PyInt(sz[3]), PyInt(sz[4])))
        /\ UNCHANGED <<conns, BASE_HEADERS, CONFIG, secrets, nextId>>

\* one PlexServer and every operation on it
Next ==
    \E c \in {1} :
        \/ Construct(c)
        \/ Query(c)
        \/ LibraryAccess(c)
        \/ Clients(c)
        \/ Client(c)
        \/ Url(c)
        \/ TranscodeImage(c)

Spec == Init /\ [][Next]_vars

\* plex = PlexServer(baseurl, token), one of several in the process
SharedConstruct(c) ==
    \E baseurl \in BaseUrlArgs, token \in TokenArgs, resp \in SharedResponses :
        Constructed(c, baseurl, token, resp,
                    PlexServer(baseurl, token, CONFIG, BASE_HEADERS, resp))

\* plex.query(path) on one of several PlexServers
SharedQuery(c) ==
    /\ Connected(c)
    /\ \E path \in PathArgs, resp \in SharedResponses :
        Called("query", c, [path |-> path, method |-> None, headers |-> None], resp,
               Sent(query(conns[c], BASE_HEADERS, path, None, None, resp)))

\* several PlexServers in one process, each constructed and queried
NextShared ==
    \E c \in Conns :
        \/ SharedConstruct(c)
        \/ SharedQuery(c)

SpecShared == Init /\ [][NextShared]_vars

\* ------------------------------------------------------------------------
\* Properties
\* ------------------------------------------------------------------------

Raised(type) == lastOp.outcome.kind = "raise" /\ lastOp.outcome.value.type = type

Returned == lastOp.outcome.kind = "return"

Message == lastOp.outcome.value.msg

HasToken == Truthy(lastOp.self.token)

\* the last operation got a response with a status from the server
Answered == lastOp.resp.kind = "http"

Success == Answered /\ lastOp.resp.status \in {200, 201}

\* C1: every response with status 200 or 201 makes query() raise no
\* BadRequest; every response with another status, named or not, makes it
\* raise BadRequest with that status code in the message.
C1_StatusClassification ==
    (lastOp.op = "query" /\ Answered) =>
        IF lastOp.resp.status \in {200, 201}
        THEN ~Raised("BadRequest")
        ELSE /\ Raised("BadRequest")
             /\ Contains(Message, <<"(">> \o Digits(lastOp.resp.status) \o <<")">>)

\* the error _connect raises for a failed handshake (the spec's
\* ConnectionFailure; the source raises it as an instance of NotFound)
ConnectionFailure == "NotFound"

\* C2: constructing sends one request for the root path, and every failure
\* of the construction (timeout, bad status, malformed or unusable body) is
\* reported as the handshake failure naming the base URL tried; no other
\* error kind escapes the constructor.
C2_HandshakeFailure ==
    lastOp.op = "PlexServer" =>
        /\ Len(lastOp.requests) = 1
        /\ lastOp.requests[1].url = url(lastOp.self, RootPath)
        /\ ~Returned =>
              /\ Raised(ConnectionFailure)
              /\ Contains(Message, Fmt(lastOp.self.baseurl))

\* C3: an access to library with the cache unset sends exactly one request
\* for the library path and, if that succeeds, stores the new Library and
\* returns it, and if it fails leaves the cache unset; an access with the
\* cache set sends nothing and returns the stored object; nothing but a new
\* construction changes a cache that is set.
C3_LibraryMemoized ==
    [][\A c \in Conns :
        /\ (lastOp'.op = "library" /\ lastOp'.conn = c) =>
              IF Truthy(conns[c].library)
              THEN /\ lastOp'.requests = NoRequests
                   /\ lastOp'.outcome = Return(conns[c].library)
                   /\ conns'[c].library = conns[c].library
              ELSE /\ Len(lastOp'.requests) = 1
                   /\ Contains(lastOp'.requests[1].url, LibraryPath)
                   /\ IF lastOp'.outcome.kind = "return"
                      THEN /\ lastOp'.outcome.value.t = "Library"
                           /\ conns'[c].library = lastOp'.outcome.value
                      ELSE conns'[c].library = None
        /\ (Connected(c) /\ Truthy(conns[c].library)
                /\ ~(lastOp'.op = "PlexServer" /\ lastOp'.conn = c)) =>
              conns'[c].library = conns[c].library
      ]_vars

\* a cached access happened: nothing was sent and the stored Library came back
C3_Witness ==
    /\ lastOp.op = "library"
    /\ lastOp.requests = NoRequests
    /\ Returned /\ lastOp.outcome.value.t = "Library"
    /\ conns[lastOp.conn].library = lastOp.outcome.value

\* C4 as stated: every request sent for a PlexServer with a token carries
\* that token in X-Plex-Token, whatever headers the caller passes.
C4_TokenNeverOverridden ==
    HasToken =>
        \A i \in 1..Len(lastOp.requests) :
            /\ TokenKey \in DOMAIN lastOp.requests[i].headers
            /\ lastOp.requests[i].headers[TokenKey] = lastOp.self.token

\* the headers the caller passed to the last operation (query only)
CallerHeaders ==
    IF lastOp.op = "query" /\ Truthy(lastOp.args.headers)
    THEN lastOp.args.headers.v
    ELSE EmptyMap

\* C4 amended: every request sent for a PlexServer with a token carries that
\* token in X-Plex-Token unless the caller passes a value under that key;
\* every header the caller passes, that key included, is sent with the
\* caller's value, next to the base headers.
C4_TokenUnlessCallerOverrides ==
    HasToken =>
        \A i \in 1..Len(lastOp.requests) :
            LET h == lastOp.requests[i].headers
            IN /\ TokenKey \in DOMAIN h
               /\ TokenKey \notin DOMAIN CallerHeaders => h[TokenKey] = lastOp.self.token
               /\ \A k \in DOMAIN CallerHeaders : k \in DOMAIN h /\ h[k] = CallerHeaders[k]
               /\ \A k \in DOMAIN BaseHeadersInit : k \in DOMAIN h

\* query with a token and a caller header under another key: both are sent
C4_Witness ==
    /\ lastOp.op = "query" /\ HasToken
    /\ "Accept" \in DOMAIN CallerHeaders
    /\ lastOp.requests[1].headers[TokenKey] = lastOp.self.token
    /\ lastOp.requests[1].headers["Accept"] = CallerHeaders["Accept"]

\* C5: no error raised by an operation of a PlexServer with a token has the
\* token in its message.
C5_NoTokenInErrors ==
    (HasToken /\ ~Returned) => ~Contains(Message, Fmt(lastOp.self.token))

\* C6: url(path) is baseurl + path + separator + 'X-Plex-Token=' + token with
\* a token, the separator '&' if path has a '?' and '?' otherwise, so one
\* query parameter is added and no second '?'; without a token it is
\* baseurl + path.
C6_UrlBuilder ==
    lastOp.op = "url" =>
        LET path == lastOp.args.path
            b == Fmt(lastOp.self.baseurl)
            r == lastOp.outcome.value.v
            n == Len(b) + Len(path)
        IN IF HasToken
           THEN /\ Len(r) = n + 3 + Len(lastOp.self.token.v)
                /\ SubSeq(r, 1, n) = b \o path
                /\ r[n + 1] = (IF Count(path, "?") > 0 THEN "&" ELSE "?")
                /\ SubSeq(r, n + 2, Len(r)) = <<TokenKey, "=">> \o lastOp.self.token.v
                /\ Count(r, "?") + Count(r, "&") = Count(path, "?") + Count(path, "&") + 1
                /\ Count(r, "?") = (IF Count(path, "?") > 0 THEN Count(path, "?") ELSE 1)
           ELSE r = b \o path

\* url with a token on a path that already has a query string
C6_Witness ==
    /\ lastOp.op = "url" /\ HasToken
    /\ Count(lastOp.args.path, "?") = 1
    /\ Count(lastOp.outcome.value.v, "&") = 1

\* the entries of a listing whose name equals name, ignoring case
Matches(children, name) ==
    {i \in 1..Len(children) :
        /\ "name" \in DOMAIN children[i].attrib
        /\ Lower(children[i].attrib["name"].v) = Lower(name.v)}

\* the listing the server returned to the last operation
Listing == fromstring(encode(lastOp.resp.text)).value.children

\* C7: on every listing the server returns, entries without a name included,
\* client(name) sends one request and returns the descriptor of the first
\* entry whose name equals name ignoring case, its address built from the
\* entry's host and port, or raises NotFound with name in the message when
\* no entry matches.
C7_ClientLookup ==
    (/\ lastOp.op = "client"
     /\ Success
     /\ Len(lastOp.resp.text) > 0
     /\ fromstring(encode(lastOp.resp.text)).kind = "return"
     /\ \A i \in 1..Len(Listing) : HasAddress(Listing[i])) =>
        LET m == Matches(Listing, lastOp.args.name)
            first == CHOOSE i \in m : \A j \in m : i <= j
        IN /\ Len(lastOp.requests) = 1
           /\ IF m = {}
              THEN /\ Raised("NotFound")
                   /\ Contains(Message, lastOp.args.name.v)
              ELSE /\ Returned
                   /\ lastOp.outcome.value.t = "PlexClient"
                   /\ lastOp.outcome.value.data = Listing[first]
                   /\ Contains(lastOp.outcome.value.baseurl.v,
                               Listing[first].attrib["host"].v)

\* C8 as stated: on a 200 or 201 response query() returns None if the body
\* is empty and a node if it is not.
C8_EmptyOrNode ==
    (lastOp.op = "query" /\ Success) =>
        IF Len(lastOp.resp.text) = 0
        THEN lastOp.outcome = Return(None)
        ELSE Returned /\ lastOp.outcome.value.t = "Element"

\* C8 amended: on a 200 or 201 response query() returns None exactly when the
\* body is empty; on a body that is not empty it returns a node, which is
\* never None, or raises ParseError when the body is not well-formed; an
\* empty body never raises.
C8_EmptyOrNodeOrParseError ==
    (lastOp.op = "query" /\ Success) =>
        IF Len(lastOp.resp.text) = 0
        THEN lastOp.outcome = Return(None)
        ELSE \/ /\ Returned
                /\ lastOp.outcome.value.t = "Element"
                /\ lastOp.outcome.value # None
             \/ Raised("ParseError")

\* query returned a node with no attributes and no children, which is not None
C8_Witness ==
    /\ lastOp.op = "query" /\ Success /\ Returned
    /\ lastOp.outcome.value.t = "Element"
    /\ DOMAIN lastOp.outcome.value.attrib = {}
    /\ lastOp.outcome.value.children = <<>>
    /\ lastOp.outcome.value # None

\* C9: transcodeImage sends no request and changes no state; it returns None
\* for media that is None or empty, and otherwise a URL made by url() with
\* the four numbers and the media in it, the token appended with '&'.
C9_TranscodeImage ==
    [][lastOp'.op = "transcodeImage" =>
        /\ UNCHANGED <<conns, BASE_HEADERS, CONFIG, secrets, nextId>>
        /\ lastOp'.requests = NoRequests
        /\ LET a == lastOp'.args
               r == lastOp'.outcome.value
               tk == lastOp'.self.token
           IN IF ~Truthy(a.media)
              THEN lastOp'.outcome = Return(None)
              ELSE /\ lastOp'.outcome.kind = "return"
                   /\ r.t = "str"
                   /\ SubSeq(r.v, 1, Len(Fmt(lastOp'.self.baseurl))) = Fmt(lastOp'.self.baseurl)
                   /\ Contains(r.v, <<"height", "=">> \o Digits(a.height) \o <<"&">>)
                   /\ Contains(r.v, <<"width", "=">> \o Digits(a.width) \o <<"&">>)
                   /\ Contains(r.v, <<"opacity", "=">> \o Digits(a.opacity) \o <<"&">>)
                   /\ Contains(r.v, <<"saturation", "=">> \o Digits(a.saturation) \o <<"&">>)
                   /\ Contains(r.v, <<"url", "=">> \o a.media.v)
                   /\ Count(r.v, "?") = 1
                   /\ IF Truthy(tk)
                      THEN SubSeq(r.v, Len(r.v) - Len(tk.v) - 2, Len(r.v))
                               = <<"&", TokenKey, "=">> \o tk.v
                      ELSE Count(r.v, TokenKey) = 0
      ]_vars

\* transcodeImage returned a URL for a PlexServer with a token
C9_Witness ==
    /\ lastOp.op = "transcodeImage" /\ HasToken
    /\ Truthy(lastOp.args.media)
    /\ Returned /\ lastOp.outcome.value.t = "str"
    /\ Contains(lastOp.outcome.value.v, <<"&", TokenKey, "=">>)

\* C10: a request carries X-Plex-Token only if the PlexServer that sent it
\* has a token, and then its own token.
C10_NoTokenLeak ==
    \A i \in 1..Len(lastOp.requests) :
        LET h == lastOp.requests[i].headers
        IN TokenKey \in DOMAIN h =>
              \/ HasToken /\ h[TokenKey] = lastOp.self.token
              \/ TokenKey \in DOMAIN CallerHeaders /\ h[TokenKey] = CallerHeaders[TokenKey]

====
